---- MODULE Spec2Model ----
(***************************************************************************)
(* Model of the Marketplace Listing Generator: the zustand store           *)
(* (store.ts), the application shell (App), the listing service            *)
(* (services/geminiService.ts), the key verification services and the      *)
(* save / edit dialogs.                                                    *)
(*                                                                         *)
(* Nullable values (T | null, optional fields) are sequences of length at  *)
(* most one: << >> is null / undefined, <<x>> is the value x.              *)
(***************************************************************************)
EXTENDS Integers, Sequences, FiniteSets, TLC

VARIABLES
    selectedPlatform,       \* App: useState<Platform>
    textInput,              \* App: useState<string>
    imageFile,              \* App: useState<ImageFile | null>
    generatedListing,       \* App: useState<GeneratedListing | null>
    isLoading,              \* App: useState<boolean>
    error,                  \* App: useState<string | null>
    priceHistory,           \* App: useState<PriceHistoryPoint[] | null>
    isFetchingHistory,      \* App: useState<boolean>
    isGenerationComplete,   \* App: useState<boolean>
    store,                  \* the zustand store (AppState)
    genCalls,               \* generateListing calls awaiting the provider
    priceCalls,             \* fetchPriceHistory promises not yet settled
    timers,                 \* setTimeout callbacks of handleUpdateListing
    now,                    \* the last value Date.now() returned
    svc,                    \* a direct call of generateListing (service level)
    settings,               \* SettingsModal: its useState values
    verifyCalls,            \* verifyApiKey calls awaiting the provider
    localStorage,           \* window.localStorage: the four records of the app
    lastOp                  \* the handler that ran last, with its argument

appVars == <<selectedPlatform, textInput, imageFile, generatedListing, isLoading,
             error, priceHistory, isFetchingHistory, isGenerationComplete>>
asyncVars == <<genCalls, priceCalls, timers>>
settingsVars == <<settings, verifyCalls>>
vars == <<appVars, store, asyncVars, now, svc, settingsVars, localStorage, lastOp>>

Null == << >>
Some(x) == <<x>>

----------------------------------------------------------------------------
(* Bounds of the model *)

MaxNow == 2             \* Date.now() values used by the shell: 1..MaxNow
MaxTimers == 1          \* pending re-selection timers
MaxHistNow == 52        \* Date.now() values in the history-cap specification
MaxHistDeleteId == 2    \* ids the user deletes in the history-cap specification

----------------------------------------------------------------------------
(* Data *)

Platforms == {"Ebay", "Facebook", "Craigslist", "X"}
ShellPlatforms == {"X"}
TextInputs == {"", " ", "t1"}
ShellTexts == {"t1"}
IMG == [base64 |-> "AAAA", mimeType |-> "image/png", name |-> "a.png"]
ImageInputs == {Null, Some(IMG)}
ShellImages == {Some(IMG)}
GeminiKeys == {"", "gk"}
EbayKeys == {"", "ek"}

MAX_TEXT_LENGTH == 1500

TextLength(t) == CASE t = "" -> 0 [] t = " " -> 1 [] OTHER -> 2

\* String.prototype.trim on the texts of the model
Trim(t) == IF t = " " THEN "" ELSE t

Listing(title, description) ==
    [title |-> title, description |-> description, tags |-> Some(<<"tag">>)]

Generated(itemName) ==
    [itemName |-> itemName, suggestedPrice |-> "$10 - $20",
     listing |-> Listing("T", "D")]

Results == {Generated("cam"), Generated("")}

HistoryItem(id, platform, text, image, listingData, customTitle) ==
    [id |-> id, platform |-> platform, input |-> [text |-> text, image |-> image],
     listingData |-> listingData, timestamp |-> <<"iso", id>>,
     customTitle |-> customTitle]

----------------------------------------------------------------------------
(* store.ts: the zustand store.  Each action is a function of the store. *)

HistoryCap == 50

\* Array.prototype.slice(0, n)
Slice(seq, n) == SubSeq(seq, 1, IF Len(seq) < n THEN Len(seq) ELSE n)

\* list.filter((item) => item.id !== itemId)
RECURSIVE FilterOutId(_, _)
FilterOutId(seq, itemId) ==
    IF seq = << >> THEN << >>
    ELSE IF Head(seq).id # itemId THEN <<Head(seq)>> \o FilterOutId(Tail(seq), itemId)
    ELSE FilterOutId(Tail(seq), itemId)

InitialStore(keys) ==
    [history |-> << >>, savedListings |-> << >>, apiKeys |-> keys,
     activeHistoryId |-> Null, activeSavedId |-> Null,
     isSettingsModalOpen |-> FALSE, isSaveModalOpen |-> FALSE,
     isEditModalOpen |-> FALSE, isExportModalOpen |-> FALSE,
     itemToEdit |-> Null, itemToExport |-> Null]

setApiKeys(s, keys) == [s EXCEPT !.apiKeys = keys]

\* the new item put at the end instead of the front
addHistoryItem_appended(s, item) ==
    [s EXCEPT !.history = Slice(s.history \o <<item>>, HistoryCap)]

addHistoryItem(s, item) ==
    [s EXCEPT !.history = Slice(<<item>> \o s.history, HistoryCap)]

deleteHistoryItem(s, itemId) ==
    [s EXCEPT !.history = FilterOutId(s.history, itemId),
              !.activeHistoryId =
                  IF s.activeHistoryId = Some(itemId) THEN Null
                  ELSE s.activeHistoryId]

addSavedListing(s, item) == [s EXCEPT !.savedListings = <<item>> \o s.savedListings]

updateSavedListing(s, updatedItem) ==
    [s EXCEPT !.savedListings =
        [i \in 1..Len(s.savedListings) |->
            IF s.savedListings[i].id = updatedItem.id THEN updatedItem
            ELSE s.savedListings[i]]]

deleteSavedListing(s, itemId) ==
    [s EXCEPT !.savedListings = FilterOutId(s.savedListings, itemId),
              !.activeSavedId =
                  IF s.activeSavedId = Some(itemId) THEN Null
                  ELSE s.activeSavedId]

setActiveHistoryId(s, id) == [s EXCEPT !.activeHistoryId = id, !.activeSavedId = Null]

setActiveSavedId(s, id) == [s EXCEPT !.activeSavedId = id, !.activeHistoryId = Null]

openSettingsModal(s) == [s EXCEPT !.isSettingsModalOpen = TRUE]

openSaveModal(s) == [s EXCEPT !.isSaveModalOpen = TRUE]

openEditModal(s, item) == [s EXCEPT !.itemToEdit = Some(item), !.isEditModalOpen = TRUE]

openExportModal(s, item) == [s EXCEPT !.itemToExport = Some(item), !.isExportModalOpen = TRUE]

closeAllModals(s) ==
    [s EXCEPT !.isSettingsModalOpen = FALSE, !.isSaveModalOpen = FALSE,
              !.isEditModalOpen = FALSE, !.isExportModalOpen = FALSE,
              !.itemToEdit = Null, !.itemToExport = Null]

\* state functions named as the fields the shell reads from the store
history == store.history
savedListings == store.savedListings
apiKeys == store.apiKeys
activeHistoryId == store.activeHistoryId
activeSavedId == store.activeSavedId

----------------------------------------------------------------------------
(* Text.  A message is a sequence of chunks; concatenation and template    *)
(* literals are \o.  toLowerCase and includes work chunk by chunk.         *)

MSG_MISSING_KEY == <<"Google Gemini API key is missing. Please add it in the Settings panel.">>
MSG_NO_INPUT == <<"Please provide an image or a text description.">>
MSG_BAD_FORMAT == <<"The AI returned an invalid response format. Please try generating the listing again.">>
MSG_BAD_STRUCTURE == <<"Invalid JSON structure received from API.">>
MSG_INVALID_KEY == <<"The provided Gemini API key is not valid. Please check the key in the Settings panel and ensure it's correct.">>
MSG_QUOTA == <<"You've exceeded your API request limit. Please check your Google Cloud account for usage details or try again later.">>
MSG_SAFETY == <<"The request was blocked by the AI's safety filters. Please try rephrasing your description or using a different image.">>
MSG_NETWORK == <<"A network error occurred. Please check your internet connection and try again.">>
MSG_GENERIC == <<"Failed to generate the listing. The AI service may be temporarily unavailable. Please try again later.">>
MSG_UNKNOWN == <<"An unknown error occurred.">>
MSG_TYPE_ERROR == <<"Cannot read properties of undefined">>

MSG_KEY_EMPTY == <<"API key cannot be empty.">>
MSG_GEMINI_REQUIRED == <<"Gemini API key is required.">>
MSG_GEMINI_SHORT == <<"Invalid format. Gemini keys are typically longer.">>
MSG_OPENAI_PREFIX == <<"Invalid format. OpenAI keys must start with \"sk-\".">>
MSG_OPENAI_SHORT == <<"Invalid format. Key is too short for an OpenAI key.">>
MSG_KEY_SHORT == <<"Invalid format. Key seems too short.">>
MSG_VERIFY_GEMINI_INVALID == <<"The provided Gemini API key is invalid or has been revoked. Please double-check the key.">>
MSG_VERIFY_BILLING == <<"The API key seems valid, but billing is not enabled on the associated Google Cloud project. Please enable billing to proceed.">>
MSG_VERIFY_QUOTA == <<"API key is valid, but you have exceeded your usage quota. Please check your Google Cloud account.">>
MSG_VERIFY_NETWORK == <<"Could not verify the API key. Please check your network connection and try again.">>
MSG_OPENAI_PREFIX_SERVICE == <<"Invalid format. OpenAI keys must start with 'sk-'.">>
MSG_OPENAI_NETWORK == <<"Could not verify the key. Check network connection or CORS policy.">>
MSG_EBAY_SHORT == <<"Invalid format. Key seems too short for an eBay App ID.">>
MSG_VERIFY_FAILED == <<"Verification failed.">>
MSG_CLIENT_ERROR == <<"An unexpected client-side error occurred.">>
MSG_SAVE_UNKNOWN == <<"An unknown verification error occurred.">>

\* the texts a provider puts in the errors it raises
ProviderChunks ==
    {"API key not valid", "Quota", "quota", "RATE LIMIT", "SAFETY",
     "Failed to fetch", "billing", "boom"}

\* String.prototype.toLowerCase on one chunk
LowerChunk(c) ==
    CASE c = "API key not valid" -> "api key not valid"
      [] c = "Quota" -> "quota"
      [] c = "RATE LIMIT" -> "rate limit"
      [] c = "SAFETY" -> "safety"
      [] c = "Failed to fetch" -> "failed to fetch"
      [] c = MSG_BAD_FORMAT[1] ->
            "the ai returned an invalid response format. please try generating the listing again."
      [] c = MSG_BAD_STRUCTURE[1] -> "invalid json structure received from api."
      [] c = MSG_TYPE_ERROR[1] -> "cannot read properties of undefined"
      [] OTHER -> c

toLowerCase(msg) == [i \in 1..Len(msg) |-> LowerChunk(msg[i])]

\* String.prototype.includes(phrase), case-sensitive
ChunkIncludes(c, phrase) ==
    \/ c = phrase
    \/ c = "failed to fetch" /\ phrase = "fetch"

includes(msg, phrase) == \E i \in 1..Len(msg) : ChunkIncludes(msg[i], phrase)

----------------------------------------------------------------------------
(* services/geminiService.ts: generateListing *)

\* what the provider can answer to generateContent: a response whose text
\* is absent, unparseable, or the JSON value `json`; or a thrown value
JsonTitles == {Null, Some(""), Some("T")}
JsonListings == {Null} \cup {Some([title |-> t, description |-> "D",
                                   tags |-> Some(<<"tag">>)]) : t \in JsonTitles}
JsonObjects ==
    {[itemName |-> n, suggestedPrice |-> "$10 - $20", listing |-> l] :
        n \in {"cam", ""}, l \in JsonListings}
JsonValues == {Null} \cup {Some(o) : o \in JsonObjects}
ResponseTexts == {Null, Some([parses |-> FALSE])}
                 \cup {Some([parses |-> TRUE, json |-> j]) : j \in JsonValues}
ProviderMessages ==
    {<<c>> : c \in ProviderChunks} \cup {<<c, d>> : c, d \in ProviderChunks}
ThrownValues ==
    {[isError |-> TRUE, message |-> m] : m \in ProviderMessages}
    \cup {[isError |-> FALSE, message |-> <<"boom">>],
          [isError |-> FALSE, message |-> <<"quota">>]}
ProviderAnswers ==
    {[kind |-> "response", text |-> t] : t \in ResponseTexts}
    \cup {[kind |-> "throw", thrown |-> e] : e \in ThrownValues}

Error(message) == [isError |-> TRUE, message |-> message]
Throws(e) == [threw |-> TRUE, thrown |-> e]
Returns(v) == [threw |-> FALSE, value |-> v]

\* `parsedJson as GeneratedListing`, for a value that passed the shape check
AsGeneratedListing(o) ==
    [itemName |-> o.itemName, suggestedPrice |-> o.suggestedPrice,
     listing |-> [title |-> o.listing[1].title[1],
                  description |-> o.listing[1].description,
                  tags |-> o.listing[1].tags]]

\* a value the Platform enumeration does not hold
OtherPlatform == "Etsy"
PromptPlatforms == Platforms \cup {OtherPlatform}

\* the instruction texts, each by its opening words
INSTR_EBAY == "For eBay, create a compelling title with relevant keywords (max 80 chars)."
INSTR_FACEBOOK == "For Facebook Marketplace, create a concise and friendly title."
INSTR_CRAIGSLIST == "For Craigslist, create a straightforward, keyword-rich title."
INSTR_X == "For X.com (Twitter), generate a complete tweet to sell this item."
INSTR_DEFAULT == "Generate a standard product listing."

getPlatformInstructions(platform) ==
    CASE platform = "Ebay" -> INSTR_EBAY
      [] platform = "Facebook" -> INSTR_FACEBOOK
      [] platform = "Craigslist" -> INSTR_CRAIGSLIST
      [] platform = "X" -> INSTR_X
      [] OTHER -> INSTR_DEFAULT

InlineDataPart(image) ==
    [kind |-> "inlineData", mimeType |-> image.mimeType, data |-> image.base64]

\* the template literal, as the sequence of its fixed texts and of the
\* values put between them
userTextPrompt(platform, text) ==
    <<"I want to create a listing for", platform>>
    \o (IF text # "" THEN <<"Based on the following user description:", text>> ELSE << >>)
    \o <<"Your task is to act as an expert e-commerce market analyst.",
         "research the current market for this item on", platform,
         "Generate a complete listing specifically optimized for", platform,
         "Follow these platform-specific instructions:", getPlatformInstructions(platform),
         "Return ONLY a valid JSON object that strictly adheres to the provided schema.">>

TextPart(platform, text) == [kind |-> "text", text |-> userTextPrompt(platform, text)]

\* the text part pushed before the image part
buildPrompt_textFirst(platform, text, image) ==
    <<TextPart(platform, text)>>
    \o (IF image # Null THEN <<InlineDataPart(image[1])>> ELSE << >>)

\* buildPrompt, lines 60-111; image is Null for undefined
buildPrompt(platform, text, image) ==
    (IF image # Null THEN <<InlineDataPart(image[1])>> ELSE << >>)
    \o <<TextPart(platform, text)>>

\* the body of the try block, lines 159-182
GenerateTry(answer) ==
    IF answer.kind = "throw" THEN Throws(answer.thrown)
    ELSE IF answer.text = Null THEN Throws(Error(MSG_TYPE_ERROR))
    ELSE IF ~answer.text[1].parses THEN Throws(Error(MSG_BAD_FORMAT))
    ELSE IF answer.text[1].json = Null THEN Throws(Error(MSG_TYPE_ERROR))
    ELSE LET parsedJson == answer.text[1].json[1]
         IN IF \/ parsedJson.listing = Null
               \/ parsedJson.listing[1].title = Null
               \/ parsedJson.listing[1].title = Some("")
            THEN Throws(Error(MSG_BAD_STRUCTURE))
            ELSE Returns(AsGeneratedListing(parsedJson))

\* the phrases matched against the text as thrown, not lowercased
GenerateCatch_caseSensitive(e) ==
    LET errorMessage == e.message
    IN IF e.isError /\ includes(errorMessage, "api key not valid")
            THEN Throws(Error(MSG_INVALID_KEY))
       ELSE IF e.isError /\ (includes(errorMessage, "quota")
                             \/ includes(errorMessage, "rate limit"))
            THEN Throws(Error(MSG_QUOTA))
       ELSE IF e.isError /\ includes(errorMessage, "safety")
            THEN Throws(Error(MSG_SAFETY))
       ELSE IF e.isError /\ includes(errorMessage, "fetch")
            THEN Throws(Error(MSG_NETWORK))
       ELSE Throws(Error(MSG_GENERIC))

\* the catch block, lines 184-206
GenerateCatch(e) ==
    LET errorMessage == toLowerCase(e.message)
    IN IF e.isError /\ includes(errorMessage, "api key not valid")
            THEN Throws(Error(MSG_INVALID_KEY))
       ELSE IF e.isError /\ (includes(errorMessage, "quota")
                             \/ includes(errorMessage, "rate limit"))
            THEN Throws(Error(MSG_QUOTA))
       ELSE IF e.isError /\ includes(errorMessage, "safety")
            THEN Throws(Error(MSG_SAFETY))
       ELSE IF e.isError /\ includes(errorMessage, "fetch")
            THEN Throws(Error(MSG_NETWORK))
       ELSE Throws(Error(MSG_GENERIC))

\* generateListing from the provider's answer on: try, then catch
generateListingSettle(answer) ==
    LET r == GenerateTry(answer)
    IN IF r.threw THEN GenerateCatch(r.thrown) ELSE r

\* the key check left out
generateListingStart_unchecked(apiKey) == [issued |-> TRUE, outcome |-> Null]

\* generateListing up to the await: the key check, lines 120-125.
\* issued tells whether generateContent is called
generateListingStart(apiKey) ==
    IF apiKey = "" THEN [issued |-> FALSE, outcome |-> Some(Throws(Error(MSG_MISSING_KEY)))]
    ELSE [issued |-> TRUE, outcome |-> Null]

----------------------------------------------------------------------------
(* services/ebayService.ts: fetchPriceHistory.  The series is random; the  *)
(* model keeps only the item it was fetched for.                           *)

fetchPriceHistory(itemName, apiKey) ==
    IF apiKey = "" \/ itemName = "" THEN Null
    ELSE Some([forItem |-> itemName])

----------------------------------------------------------------------------
(* Key verification: geminiService, openaiService, ebayService, xService.  *)
(* Each verifyApiKey is split at its await: the part before it answers     *)
(* (a result) or calls the provider (null); the part after it turns the    *)
(* provider's answer into the result.                                      *)

KeyNames == {"gemini", "openai", "ebay", "x"}

\* the values typed into a key field
KeyInputs == {"", " ", "short", "ek", "gk", "sk-key"}

\* String.prototype.length on the keys of the model
KeyLength(k) ==
    CASE k = "" -> 0
      [] k = " " -> 1
      [] k = "short" -> 5
      [] k = "ek" -> 24
      [] k = "gk" -> 39
      [] k = "sk-key" -> 51

\* value.startsWith('sk-')
StartsWithSk(k) == k = "sk-key"

Failure(message) == [success |-> FALSE, message |-> Some(message)]
Success == [success |-> TRUE, message |-> Null]

\* what generateContent("hi") can do: resolve, or throw a value
GeminiVerifyAnswers ==
    {[kind |-> "ok"]} \cup {[kind |-> "throw", thrown |-> e] : e \in ThrownValues}

\* geminiService.verifyApiKey, lines 15-17
verifyGeminiStart(apiKey) ==
    IF apiKey = "" THEN Some(Failure(MSG_KEY_EMPTY)) ELSE Null

\* geminiService.verifyApiKey, lines 18-42
verifyGeminiSettle(answer) ==
    IF answer.kind = "ok" THEN Success
    ELSE LET e == answer.thrown
             errorMessage == toLowerCase(e.message)
         IN IF e.isError /\ includes(errorMessage, "api key not valid")
                THEN Failure(MSG_VERIFY_GEMINI_INVALID)
            ELSE IF e.isError /\ includes(errorMessage, "billing")
                THEN Failure(MSG_VERIFY_BILLING)
            ELSE IF e.isError /\ (includes(errorMessage, "quota")
                                  \/ includes(errorMessage, "rate limit"))
                THEN Failure(MSG_VERIFY_QUOTA)
            ELSE Failure(MSG_VERIFY_NETWORK)

\* the text of an HTTP status
StatusText(status) == CASE status = 401 -> "401" [] status = 429 -> "429"

\* what fetch(/v1/models) can do: reject, or resolve with a response that is
\* ok, or not ok with a body that is not JSON (null) or the JSON value body
OpenAiErrorBodies ==
    {Null, Some([error |-> Null])}
    \cup {Some([error |-> Some([message |-> m])]) :
            m \in {Null, Some(<< >>), Some(<<"boom">>), Some(<<"Quota">>)}}
OpenAiVerifyAnswers ==
    {[kind |-> "throw"], [kind |-> "response", ok |-> TRUE]}
    \cup {[kind |-> "response", ok |-> FALSE, status |-> st, body |-> b] :
            st \in {401, 429}, b \in OpenAiErrorBodies}

\* openaiService.verifyApiKey, lines 175-180
verifyOpenAiStart(apiKey) ==
    IF apiKey = "" THEN Some(Failure(MSG_KEY_EMPTY))
    ELSE IF ~StartsWithSk(apiKey) THEN Some(Failure(MSG_OPENAI_PREFIX_SERVICE))
    ELSE Null

\* openaiService.verifyApiKey, lines 182-200
verifyOpenAiSettle(answer) ==
    IF answer.kind = "throw" THEN Failure(MSG_OPENAI_NETWORK)
    ELSE IF answer.ok THEN Success
    ELSE IF answer.body = Null THEN Failure(MSG_OPENAI_NETWORK)
    ELSE LET errorData == answer.body[1]
             provided == IF errorData.error = Null THEN Null
                         ELSE errorData.error[1].message
             errorMessage ==
                 IF provided # Null /\ provided # Some(<< >>) THEN provided[1]
                 ELSE <<"Verification failed with status: ", StatusText(answer.status), ".">>
         IN Failure(<<"OpenAI API Error: ">> \o errorMessage)

\* ebayService.verifyApiKey, lines 57-63
verifyEbayStart(apiKey) ==
    IF apiKey = "" THEN Some(Failure(MSG_KEY_EMPTY))
    ELSE IF KeyLength(apiKey) < 20 THEN Some(Failure(MSG_EBAY_SHORT))
    ELSE Null

\* xService.verifyApiKey, lines 12-18
verifyXStart(apiKey) ==
    IF apiKey = "" THEN Some(Failure(MSG_KEY_EMPTY))
    ELSE IF KeyLength(apiKey) < 25 THEN Some(Failure(MSG_KEY_SHORT))
    ELSE Null

\* ebayService and xService after the simulated delay
verifyDelaySettle(answer) == Success

\* the switch of handleVerify, lines 119-125
verifyStart(keyName, apiKey) ==
    CASE keyName = "gemini" -> verifyGeminiStart(apiKey)
      [] keyName = "openai" -> verifyOpenAiStart(apiKey)
      [] keyName = "ebay" -> verifyEbayStart(apiKey)
      [] keyName = "x" -> verifyXStart(apiKey)

verifySettle(keyName, answer) ==
    CASE keyName = "gemini" -> verifyGeminiSettle(answer)
      [] keyName = "openai" -> verifyOpenAiSettle(answer)
      [] OTHER -> verifyDelaySettle(answer)

VerifyAnswers(keyName) ==
    CASE keyName = "gemini" -> GeminiVerifyAnswers
      [] keyName = "openai" -> OpenAiVerifyAnswers
      [] OTHER -> {[kind |-> "ok"]}

----------------------------------------------------------------------------
(* components/SettingsModal.tsx: the state of the dialog *)

NoMessages == [k \in KeyNames |-> Null]

\* the useState initial values, and the values the effect on [initialKeys,
\* isOpen] sets when the dialog is open
FreshSettings(initialKeys) ==
    [keys |-> initialKeys, isSaving |-> FALSE, saveError |-> Null,
     errors |-> NoMessages,
     verificationStatus |-> [k \in KeyNames |-> "idle"],
     verificationMessages |-> NoMessages]

validateKeyFormat(keyName, value) ==
    CASE keyName = "gemini" ->
            IF Trim(value) = "" THEN Some(MSG_GEMINI_REQUIRED)
            ELSE IF KeyLength(value) < 35 THEN Some(MSG_GEMINI_SHORT)
            ELSE Null
      [] keyName = "openai" ->
            IF Trim(value) # "" /\ ~StartsWithSk(value) THEN Some(MSG_OPENAI_PREFIX)
            ELSE IF Trim(value) # "" /\ KeyLength(value) < 40 THEN Some(MSG_OPENAI_SHORT)
            ELSE Null
      [] keyName = "ebay" ->
            IF Trim(value) # "" /\ KeyLength(value) < 20 THEN Some(MSG_KEY_SHORT)
            ELSE Null
      [] keyName = "x" ->
            IF Trim(value) # "" /\ KeyLength(value) < 25 THEN Some(MSG_KEY_SHORT)
            ELSE Null

\* handleVerify after the await, lines 127-132, for the result of the service
VerifyResult(s, keyName, result) ==
    IF result.success
    THEN [s EXCEPT !.verificationStatus[keyName] = "success"]
    ELSE [s EXCEPT !.verificationStatus[keyName] = "error",
                   !.verificationMessages[keyName] =
                       IF result.message # Null /\ result.message # Some(<< >>)
                       THEN result.message ELSE Some(MSG_VERIFY_FAILED)]

\* the texts the dialog renders: combinedError of every field
combinedError(keyName) ==
    IF settings.errors[keyName] # Null THEN settings.errors[keyName]
    ELSE IF settings.verificationMessages[keyName] # Null
        THEN settings.verificationMessages[keyName]
    ELSE IF keyName = "gemini" THEN settings.saveError
    ELSE Null

----------------------------------------------------------------------------
(* store.ts: runMigration.  localStorage maps each of the four keys to     *)
(* null (no record) or to the stored string.  A stored string either does  *)
(* not parse, or parses to the JSON value `json`.  The application and the *)
(* persist middleware store the output of JSON.stringify, so a stored      *)
(* string is never empty.                                                  *)

ZUSTAND_STORAGE_KEY == "marketplace-app-storage"
OLD_HISTORY_KEY == "marketplaceListingHistory"
OLD_SAVED_KEY == "marketplaceSavedListings"
OLD_KEYS_KEY == "marketplaceApiKeys"
OldStorageKeys == {OLD_HISTORY_KEY, OLD_SAVED_KEY, OLD_KEYS_KEY}
StorageKeys == {ZUSTAND_STORAGE_KEY} \cup OldStorageKeys

Unparseable == [parses |-> FALSE]
Json(value) == [parses |-> TRUE, json |-> value]

\* JSON values: null, an array of items, an object with its fields
JsonNull == [type |-> "null"]
JsonArray(items) == [type |-> "array", items |-> items]
JsonObject(fields) == [type |-> "object", fields |-> fields]

\* the lists an older version stored: empty, or one item
OldItem(id) == HistoryItem(id, "Ebay", "t1", Null, Generated("cam"), Null)
OldLists(id) ==
    {Unparseable, Json(JsonNull), Json(JsonArray(<< >>)), Json(JsonArray(<<OldItem(id)>>))}

\* the key records an older version stored: a field is absent (null) or set
OldKeyObjects ==
    {[gemini |-> Some("gk"), openai |-> Null, ebay |-> Null, x |-> Null],
     [gemini |-> Some("gk"), openai |-> Some("sk-key"), ebay |-> Some("ek"),
      x |-> Some("ek")],
     [gemini |-> Null, openai |-> Null, ebay |-> Null, x |-> Null]}
OldKeyRecords ==
    {Unparseable, Json(JsonNull)} \cup {Json(JsonObject(o)) : o \in OldKeyObjects}

\* oldKeys.gemini || ''
OrEmpty(field) == IF field = Null THEN "" ELSE field[1]

\* newPersistedState, lines 67-79
PersistedState(historyJson, savedJson, oldKeys) ==
    [state |-> [history |-> historyJson, savedListings |-> savedJson,
                apiKeys |-> [gemini |-> OrEmpty(oldKeys.gemini),
                             openai |-> OrEmpty(oldKeys.openai),
                             ebay |-> OrEmpty(oldKeys.ebay),
                             x |-> OrEmpty(oldKeys.x)]],
     version |-> 0]

\* the merged records found at startup: one written by the persist
\* middleware, or a damaged one
MergedRecords ==
    {Unparseable,
     Json(PersistedState(JsonArray(<< >>), JsonArray(<< >>),
                         [gemini |-> Some("gk"), openai |-> Null, ebay |-> Null,
                          x |-> Null]))}

EmptyStorage == [k \in StorageKeys |-> Null]

Storages ==
    {[k \in StorageKeys |->
        CASE k = ZUSTAND_STORAGE_KEY -> m
          [] k = OLD_HISTORY_KEY -> h
          [] k = OLD_SAVED_KEY -> s
          [] k = OLD_KEYS_KEY -> o] :
        m \in {Null} \cup {Some(r) : r \in MergedRecords},
        h \in {Null} \cup {Some(r) : r \in OldLists(1)},
        s \in {Null} \cup {Some(r) : r \in OldLists(2)},
        o \in {Null} \cup {Some(r) : r \in OldKeyRecords}}

\* localStorage.removeItem of the three old keys
RemoveOldKeys(ls) == [k \in StorageKeys |-> IF k \in OldStorageKeys THEN Null ELSE ls[k]]

\* JSON.parse(str || fallback): the value, or null (<< >>) when it throws
ParseOr(str, fallback) ==
    IF str = Null THEN Some(fallback)
    ELSE IF ~str[1].parses THEN Null
    ELSE Some(str[1].json)

\* the merged record rebuilt from the old keys whatever is stored
Migrated_overwriting(ls) ==
    LET parsedHistory == ParseOr(ls[OLD_HISTORY_KEY], JsonArray(<< >>))
        parsedSaved == ParseOr(ls[OLD_SAVED_KEY], JsonArray(<< >>))
        oldKeys == ParseOr(ls[OLD_KEYS_KEY],
                           JsonObject([gemini |-> Null, openai |-> Null, ebay |-> Null,
                                       x |-> Null]))
    IN IF \/ parsedHistory = Null \/ parsedSaved = Null \/ oldKeys = Null
          \/ oldKeys = Some(JsonNull)
       THEN RemoveOldKeys(ls)
       ELSE RemoveOldKeys(
                [ls EXCEPT ![ZUSTAND_STORAGE_KEY] =
                    Some(Json(PersistedState(parsedHistory[1], parsedSaved[1],
                                             oldKeys[1].fields)))])

\* runMigration as a function of localStorage
Migrated(ls) ==
    LET oldHistoryStr == ls[OLD_HISTORY_KEY]
        oldSavedStr == ls[OLD_SAVED_KEY]
        oldKeysStr == ls[OLD_KEYS_KEY]
        parsedHistory == ParseOr(oldHistoryStr, JsonArray(<< >>))
        parsedSaved == ParseOr(oldSavedStr, JsonArray(<< >>))
        oldKeys == ParseOr(oldKeysStr,
                           JsonObject([gemini |-> Null, openai |-> Null, ebay |-> Null,
                                       x |-> Null]))
    IN IF ls[ZUSTAND_STORAGE_KEY] # Null THEN ls
       ELSE IF oldHistoryStr = Null /\ oldSavedStr = Null /\ oldKeysStr = Null THEN ls
       ELSE IF \/ parsedHistory = Null \/ parsedSaved = Null \/ oldKeys = Null
               \/ oldKeys = Some(JsonNull)
            THEN RemoveOldKeys(ls)
       ELSE RemoveOldKeys(
                [ls EXCEPT ![ZUSTAND_STORAGE_KEY] =
                    Some(Json(PersistedState(parsedHistory[1], parsedSaved[1],
                                             oldKeys[1].fields)))])

----------------------------------------------------------------------------
(* The application shell (App) *)

Op(name, arg) == [name |-> name, arg |-> arg]

\* Date.now(): later than every value read before
DateNow == now + 1

\* the state after construction; the store is rehydrated from the persisted
\* record, whose keys are one of geminiKeys x ebayKeys
InitState(geminiKeys, ebayKeys, storages) ==
    /\ selectedPlatform = "Ebay"
    /\ textInput = ""
    /\ imageFile = Null
    /\ generatedListing = Null
    /\ isLoading = FALSE
    /\ error = Null
    /\ priceHistory = Null
    /\ isFetchingHistory = FALSE
    /\ isGenerationComplete = FALSE
    /\ \E g \in geminiKeys, e \in ebayKeys :
          store = InitialStore([gemini |-> g, openai |-> "", ebay |-> e, x |-> ""])
    /\ genCalls = << >>
    /\ priceCalls = << >>
    /\ timers = << >>
    /\ now = 0
    /\ svc = [phase |-> "idle"]
    /\ settings = FreshSettings(store.apiKeys)
    /\ verifyCalls = << >>
    /\ localStorage \in storages
    /\ lastOp = Op("init", Null)

\* the storage of the browser is left out where the migration is not studied
InitWith(geminiKeys, ebayKeys) == InitState(geminiKeys, ebayKeys, {EmptyStorage})

AnyModalOpen ==
    \/ store.isSettingsModalOpen \/ store.isSaveModalOpen
    \/ store.isEditModalOpen \/ store.isExportModalOpen

\* Array.prototype.find by id: the first match, or null
RECURSIVE FindById(_, _)
FindById(seq, id) ==
    IF seq = << >> \/ id = Null THEN Null
    ELSE IF Some(Head(seq).id) = id THEN Some(Head(seq))
    ELSE FindById(Tail(seq), id)

activeItem ==
    IF FindById(history, activeHistoryId) # Null THEN FindById(history, activeHistoryId)
    ELSE FindById(savedListings, activeSavedId)

\* the live listing first
listingToShow_liveFirst ==
    IF generatedListing # Null THEN generatedListing
    ELSE IF activeItem # Null THEN Some(activeItem[1].listingData) ELSE Null

listingToShow ==
    IF activeItem # Null THEN Some(activeItem[1].listingData) ELSE generatedListing

platformToShow ==
    IF activeItem # Null THEN activeItem[1].platform ELSE selectedPlatform

\* InputArea: the Generate button is enabled
isTextTooLong == TextLength(textInput) > MAX_TEXT_LENGTH
\* the button left enabled while a generation is running
canGenerate_whileLoading ==
    /\ TextLength(Trim(textInput)) > 0 \/ imageFile # Null
    /\ ~isTextTooLong

canGenerate ==
    /\ TextLength(Trim(textInput)) > 0 \/ imageFile # Null
    /\ ~isLoading
    /\ ~isTextTooLong

RemoveAt(seq, i) == SubSeq(seq, 1, i - 1) \o SubSeq(seq, i + 1, Len(seq))

\* the selection left as it is
ClearSelection_kept(s) == s

\* setActiveHistoryId(null); setActiveSavedId(null)
ClearSelection(s) == setActiveSavedId(setActiveHistoryId(s, Null), Null)

handleGenerate ==
    /\ ~AnyModalOpen
    /\ ~isGenerationComplete
    /\ canGenerate
    /\ lastOp' = Op("handleGenerate", Null)
    /\ IF apiKeys.gemini = ""
       THEN /\ error' = Some(MSG_MISSING_KEY)
            /\ UNCHANGED <<selectedPlatform, textInput, imageFile, generatedListing,
                           isLoading, priceHistory, isFetchingHistory,
                           isGenerationComplete, store, asyncVars>>
       ELSE IF textInput = "" /\ imageFile = Null
       THEN /\ error' = Some(MSG_NO_INPUT)
            /\ UNCHANGED <<selectedPlatform, textInput, imageFile, generatedListing,
                           isLoading, priceHistory, isFetchingHistory,
                           isGenerationComplete, store, asyncVars>>
       ELSE /\ isLoading' = TRUE
            /\ error' = Null
            /\ generatedListing' = Null
            /\ priceHistory' = Null
            /\ store' = ClearSelection(store)
            /\ isGenerationComplete' = FALSE
            /\ genCalls' = Append(genCalls,
                  [platform |-> selectedPlatform, text |-> textInput,
                   image |-> imageFile, apiKey |-> apiKeys.gemini,
                   ebayKey |-> apiKeys.ebay,
                   start |-> generateListingStart(apiKeys.gemini)])
            /\ UNCHANGED <<selectedPlatform, textInput, imageFile, isFetchingHistory,
                           priceCalls, timers>>
    /\ UNCHANGED <<now, svc, localStorage, settingsVars>>

\* the fetch started whatever the key and the item name
ShouldFetchPrice_always(ebayKey, itemName) == TRUE

\* line 113: apiKeys.ebay && result.itemName
ShouldFetchPrice(ebayKey, itemName) == ebayKey # "" /\ itemName # ""

\* the item built from the inputs as they are when the answer arrives
newHistoryItem_current(call, result, t) ==
    HistoryItem(t, selectedPlatform, textInput, imageFile, result, Null)

\* lines 103-109: the item holds the platform, the text and the image of the
\* render in which Generate was pressed (the values the callback closed over)
newHistoryItem(call, result, t) ==
    HistoryItem(t, call.platform, call.text, call.image, result, Null)

\* a failed call issued again by itself
GenerateSettleAt_retrying(i, answer, t) ==
    /\ i \in 1..Len(genCalls)
    /\ LET call == genCalls[i]
           r == IF call.start.issued THEN generateListingSettle(answer)
                ELSE call.start.outcome[1]
       IN /\ genCalls' = IF r.threw THEN genCalls ELSE RemoveAt(genCalls, i)
          /\ isLoading' = FALSE
          /\ IF ~r.threw
             THEN LET result == r.value
                  IN /\ generatedListing' = Some(result)
                     /\ isGenerationComplete' = TRUE
                     /\ store' = addHistoryItem(store, newHistoryItem(call, result, t))
                     /\ now' = t
                     /\ IF ShouldFetchPrice(call.ebayKey, result.itemName)
                        THEN /\ isFetchingHistory' = TRUE
                             /\ priceCalls' = Append(priceCalls,
                                   [itemName |-> result.itemName, apiKey |-> call.ebayKey])
                        ELSE UNCHANGED <<isFetchingHistory, priceCalls>>
                     /\ UNCHANGED error
             ELSE /\ error' = Some(IF r.thrown.isError THEN r.thrown.message
                                   ELSE MSG_UNKNOWN)
                  /\ UNCHANGED <<generatedListing, isGenerationComplete, store, now,
                                 isFetchingHistory, priceCalls>>
    /\ lastOp' = Op("GenerateSettle", Some(answer))
    /\ UNCHANGED <<selectedPlatform, textInput, imageFile, priceHistory, timers, svc, localStorage, settingsVars>>

\* the continuation of handleGenerate after the await, for the call at
\* position i, the provider's answer and the value t that Date.now() returns
GenerateSettleAt(i, answer, t) ==
    /\ i \in 1..Len(genCalls)
    /\ LET call == genCalls[i]
           r == IF call.start.issued THEN generateListingSettle(answer)
                ELSE call.start.outcome[1]
       IN /\ genCalls' = RemoveAt(genCalls, i)
          /\ isLoading' = FALSE
          /\ IF ~r.threw
             THEN LET result == r.value
                  IN /\ generatedListing' = Some(result)
                     /\ isGenerationComplete' = TRUE
                     /\ store' = addHistoryItem(store, newHistoryItem(call, result, t))
                     /\ now' = t
                     /\ IF ShouldFetchPrice(call.ebayKey, result.itemName)
                        THEN /\ isFetchingHistory' = TRUE
                             /\ priceCalls' = Append(priceCalls,
                                   [itemName |-> result.itemName, apiKey |-> call.ebayKey])
                        ELSE UNCHANGED <<isFetchingHistory, priceCalls>>
                     /\ UNCHANGED error
             ELSE /\ error' = Some(IF r.thrown.isError THEN r.thrown.message
                                   ELSE MSG_UNKNOWN)
                  /\ UNCHANGED <<generatedListing, isGenerationComplete, store, now,
                                 isFetchingHistory, priceCalls>>
    /\ lastOp' = Op("GenerateSettle", Some(answer))
    /\ UNCHANGED <<selectedPlatform, textInput, imageFile, priceHistory, timers, svc, localStorage, settingsVars>>

\* the same with a clock that has advanced since it was last read
GenerateSettle(i, answer) == GenerateSettleAt(i, answer, DateNow)

\* a rejection shown to the user as the error
PriceSettle_surfacing(i, resolves) ==
    /\ i \in 1..Len(priceCalls)
    /\ priceCalls' = RemoveAt(priceCalls, i)
    /\ priceHistory' = IF resolves
                       THEN fetchPriceHistory(priceCalls[i].itemName, priceCalls[i].apiKey)
                       ELSE priceHistory
    /\ error' = IF resolves THEN error ELSE Some(MSG_UNKNOWN)
    /\ isFetchingHistory' = FALSE
    /\ lastOp' = Op("PriceSettle", Some(resolves))
    /\ UNCHANGED <<selectedPlatform, textInput, imageFile, generatedListing, isLoading,
                   isGenerationComplete, store, genCalls, timers, now, svc, localStorage,
                   settingsVars>>

\* the then / catch / finally chain on the fetchPriceHistory promise: it
\* resolves with the data, or rejects
PriceSettle(i, resolves) ==
    /\ i \in 1..Len(priceCalls)
    /\ priceCalls' = RemoveAt(priceCalls, i)
    /\ priceHistory' = IF resolves
                       THEN fetchPriceHistory(priceCalls[i].itemName, priceCalls[i].apiKey)
                       ELSE priceHistory
    /\ isFetchingHistory' = FALSE
    /\ lastOp' = Op("PriceSettle", Some(resolves))
    /\ UNCHANGED <<selectedPlatform, textInput, imageFile, generatedListing, isLoading,
                   error, isGenerationComplete, store, genCalls, timers, now, svc, localStorage, settingsVars>>

\* the local state handleStartNewListing sets
StartNewLocal ==
    /\ textInput' = ""
    /\ imageFile' = Null
    /\ generatedListing' = Null
    /\ error' = Null
    /\ priceHistory' = Null
    /\ isGenerationComplete' = FALSE
    /\ UNCHANGED <<selectedPlatform, isLoading, isFetchingHistory>>

handleStartNewListing ==
    /\ ~AnyModalOpen
    /\ isGenerationComplete
    /\ StartNewLocal
    /\ store' = ClearSelection(store)
    /\ lastOp' = Op("handleStartNewListing", Null)
    /\ UNCHANGED <<asyncVars, now, svc, localStorage, settingsVars>>

\* deselectItems
DeselectLocal ==
    /\ priceHistory' = Null
    /\ isGenerationComplete' = FALSE

onPlatformChange(platform) ==
    /\ ~AnyModalOpen
    /\ selectedPlatform' = platform
    /\ DeselectLocal
    /\ store' = ClearSelection(store)
    /\ lastOp' = Op("onPlatformChange", Some(platform))
    /\ UNCHANGED <<textInput, imageFile, generatedListing, isLoading, error,
                   isFetchingHistory, asyncVars, now, svc, localStorage, settingsVars>>

onTextChange(text) ==
    /\ ~AnyModalOpen
    /\ textInput' = text
    /\ DeselectLocal
    /\ store' = ClearSelection(store)
    /\ lastOp' = Op("onTextChange", Some(text))
    /\ UNCHANGED <<selectedPlatform, imageFile, generatedListing, isLoading, error,
                   isFetchingHistory, asyncVars, now, svc, localStorage, settingsVars>>

onImageChange(image) ==
    /\ ~AnyModalOpen
    /\ imageFile' = image
    /\ DeselectLocal
    /\ store' = ClearSelection(store)
    /\ lastOp' = Op("onImageChange", Some(image))
    /\ UNCHANGED <<selectedPlatform, textInput, generatedListing, isLoading, error,
                   isFetchingHistory, asyncVars, now, svc, localStorage, settingsVars>>

\* the local state both select handlers set
SelectLocal(item) ==
    /\ selectedPlatform' = item.platform
    /\ textInput' = item.input.text
    /\ imageFile' = item.input.image
    /\ generatedListing' = Null
    /\ priceHistory' = Null
    /\ error' = Null
    /\ isGenerationComplete' = TRUE
    /\ UNCHANGED <<isLoading, isFetchingHistory>>

handleHistorySelect(i) ==
    /\ ~AnyModalOpen
    /\ i \in 1..Len(history)
    /\ store' = setActiveHistoryId(store, Some(history[i].id))
    /\ SelectLocal(history[i])
    /\ lastOp' = Op("handleHistorySelect", Some(history[i].id))
    /\ UNCHANGED <<asyncVars, now, svc, localStorage, settingsVars>>

handleSelectSavedListing(i) ==
    /\ ~AnyModalOpen
    /\ i \in 1..Len(savedListings)
    /\ store' = setActiveSavedId(store, Some(savedListings[i].id))
    /\ SelectLocal(savedListings[i])
    /\ lastOp' = Op("handleSelectSavedListing", Some(savedListings[i].id))
    /\ UNCHANGED <<asyncVars, now, svc, localStorage, settingsVars>>

\* ListingPreview renders the listing (not the loading or error panel)
PreviewShowsListing == ~isLoading /\ error = Null /\ listingToShow # Null

\* the Save Listing button: isNewGeneration && onSave
SaveButtonShown == PreviewShowsListing /\ generatedListing # Null

\* ListingPreview lines 342-363: the price history block shows the spinner,
\* the chart, or the hint to add a pricing key
PriceSpinnerShown == PreviewShowsListing /\ isFetchingHistory
PriceChartShown == PreviewShowsListing /\ ~isFetchingHistory /\ priceHistory # Null
PriceHintShown ==
    PreviewShowsListing /\ ~isFetchingHistory /\ priceHistory = Null
        /\ generatedListing # Null

\* the Actions menu with Export As: !isNewGeneration && onExport, where
\* onExport is passed only when there is no live listing
isNewGeneration == generatedListing # Null
onExportPassed == ~(generatedListing # Null)
ActionsShown == PreviewShowsListing /\ ~isNewGeneration /\ onExportPassed

\* Export As in the Actions menu: App.handleOpenExportModal
handleOpenExportModal ==
    /\ ~AnyModalOpen
    /\ ActionsShown
    /\ LET item == IF activeItem # Null THEN activeItem
                   ELSE IF generatedListing # Null
                        THEN Some(HistoryItem(0, selectedPlatform, textInput, imageFile,
                                              generatedListing[1], Null))
                        ELSE Null
       IN store' = IF item # Null THEN openExportModal(store, item[1]) ELSE store
    /\ lastOp' = Op("handleOpenExportModal", Null)
    /\ UNCHANGED <<appVars, asyncVars, now, svc, localStorage, settingsVars>>

handleOpenSaveModal ==
    /\ ~AnyModalOpen
    /\ SaveButtonShown
    /\ store' = openSaveModal(store)
    /\ lastOp' = Op("openSaveModal", Null)
    /\ UNCHANGED <<appVars, asyncVars, now, svc, localStorage, settingsVars>>

SaveTitleInputs == {"", "mine"}

\* SaveListingModal.handleSave with `title` in the field: App.handleSaveListing
\* (which ends with handleStartNewListing), then onClose; t is the value
\* Date.now() returns
handleSaveListingAt(title, t) ==
    /\ store.isSaveModalOpen
    /\ Trim(title) # ""
    /\ IF generatedListing = Null
       THEN /\ store' = closeAllModals(store)
            /\ UNCHANGED <<appVars, now>>
       ELSE LET itemToSave ==
                    HistoryItem(t, selectedPlatform, textInput, imageFile,
                                generatedListing[1], Some(Trim(title)))
            IN /\ store' = closeAllModals(ClearSelection(addSavedListing(store, itemToSave)))
               /\ StartNewLocal
               /\ now' = t
    /\ lastOp' = Op("handleSaveListing", Some(Trim(title)))
    /\ UNCHANGED <<asyncVars, svc, localStorage, settingsVars>>

handleSaveListing(title) == handleSaveListingAt(title, DateNow)

\* Cancel, the close control or a click on the backdrop of any dialog
handleCloseModal ==
    /\ AnyModalOpen
    /\ store' = closeAllModals(store)
    /\ lastOp' = Op("closeAllModals", Null)
    /\ UNCHANGED <<appVars, asyncVars, now, svc, localStorage, settingsVars>>

handleOpenEditModal(i) ==
    /\ ~AnyModalOpen
    /\ i \in 1..Len(savedListings)
    /\ store' = openEditModal(store, savedListings[i])
    /\ lastOp' = Op("openEditModal", Some(savedListings[i].id))
    /\ UNCHANGED <<appVars, asyncVars, now, svc, localStorage, settingsVars>>

FormInputs ==
    [customTitle : {"renamed"}, title : {"T2"}, description : {"D2"}]

\* the listing rebuilt from the form alone, without spreading the old one
EditedItem_rebuilt(item, formData) ==
    [item EXCEPT !.customTitle = Some(formData.customTitle),
                 !.listingData.listing =
                     [title |-> formData.title, description |-> formData.description,
                      tags |-> Null]]

\* EditListingModal.handleSave: the item built from the form
EditedItem(item, formData) ==
    [item EXCEPT !.customTitle = Some(formData.customTitle),
                 !.listingData.listing.title = formData.title,
                 !.listingData.listing.description = formData.description]

\* App.handleUpdateListing, on the store
UpdateListing(s, updatedItem) ==
    IF s.activeSavedId = Some(updatedItem.id)
    THEN setActiveSavedId(updateSavedListing(s, updatedItem), Null)
    ELSE updateSavedListing(s, updatedItem)

\* EditListingModal.handleSave: onSave(updatedItem), which is
\* App.handleUpdateListing, then onClose
handleUpdateListing(formData) ==
    /\ store.isEditModalOpen
    /\ store.itemToEdit # Null
    /\ LET updatedItem == EditedItem(store.itemToEdit[1], formData)
       IN /\ store' = closeAllModals(UpdateListing(store, updatedItem))
          /\ timers' = IF activeSavedId = Some(updatedItem.id)
                       THEN Append(timers, updatedItem.id)
                       ELSE timers
          /\ lastOp' = Op("handleUpdateListing", Some(updatedItem.id))
    /\ UNCHANGED <<appVars, genCalls, priceCalls, now, svc, localStorage, settingsVars>>

\* the callback of setTimeout(() => setActiveSavedId(updatedItem.id), 0)
TimerFire(i) ==
    /\ i \in 1..Len(timers)
    /\ store' = setActiveSavedId(store, Some(timers[i]))
    /\ timers' = RemoveAt(timers, i)
    /\ lastOp' = Op("TimerFire", Some(timers[i]))
    /\ UNCHANGED <<appVars, genCalls, priceCalls, now, svc, localStorage, settingsVars>>

\* the user confirms window.confirm
handleDeleteSavedListing(itemId) ==
    /\ ~AnyModalOpen
    /\ \E i \in 1..Len(savedListings) : savedListings[i].id = itemId
    /\ store' = deleteSavedListing(store, itemId)
    /\ lastOp' = Op("handleDeleteSavedListing", Some(itemId))
    /\ UNCHANGED <<appVars, asyncVars, now, svc, localStorage, settingsVars>>

handleDeleteHistory(itemId) ==
    /\ ~AnyModalOpen
    /\ \E i \in 1..Len(history) : history[i].id = itemId
    /\ store' = deleteHistoryItem(store, itemId)
    /\ lastOp' = Op("handleDeleteHistory", Some(itemId))
    /\ UNCHANGED <<appVars, asyncVars, now, svc, localStorage, settingsVars>>

----------------------------------------------------------------------------
(* components/SettingsModal.tsx: the handlers.  The dialog stays mounted   *)
(* while closed, so a pending await settles whether it is open or not.     *)

\* Header: onOpenSettings; the effect of the dialog then resets its state
handleOpenSettings ==
    /\ ~AnyModalOpen
    /\ store' = openSettingsModal(store)
    /\ settings' = FreshSettings(apiKeys)
    /\ lastOp' = Op("openSettingsModal", Null)
    /\ UNCHANGED <<appVars, asyncVars, now, svc, localStorage, verifyCalls>>

handleChange(keyId, value) ==
    /\ store.isSettingsModalOpen
    /\ value # settings.keys[keyId]
    /\ settings' =
          [settings EXCEPT !.keys[keyId] = value,
                           !.verificationStatus[keyId] = "idle",
                           !.verificationMessages[keyId] = Null,
                           !.errors[keyId] = Null,
                           !.saveError = IF keyId = "gemini" THEN Null ELSE @]
    /\ lastOp' = Op("handleChange", Some(keyId))
    /\ UNCHANGED <<appVars, store, asyncVars, now, svc, localStorage, verifyCalls>>

\* the Verify button of a field, enabled by line 202
handleVerify(keyName) ==
    /\ store.isSettingsModalOpen
    /\ settings.keys[keyName] # ""
    /\ settings.verificationStatus[keyName] # "loading"
    /\ LET keyToVerify == Trim(settings.keys[keyName])
           cleared == [settings EXCEPT !.saveError = Null, !.errors[keyName] = Null]
           formatError == validateKeyFormat(keyName, keyToVerify)
           loading == [cleared EXCEPT !.verificationStatus[keyName] = "loading",
                                      !.verificationMessages[keyName] = Null]
           start == verifyStart(keyName, keyToVerify)
       IN IF formatError # Null
          THEN /\ settings' = [cleared EXCEPT !.verificationStatus[keyName] = "error",
                                              !.verificationMessages[keyName] = formatError]
               /\ UNCHANGED verifyCalls
          ELSE IF start # Null
          THEN /\ settings' = VerifyResult(loading, keyName, start[1])
               /\ UNCHANGED verifyCalls
          ELSE /\ settings' = loading
               /\ verifyCalls' = Append(verifyCalls,
                     [op |-> "verify", keyName |-> keyName, apiKey |-> keyToVerify,
                      keys |-> settings.keys])
    /\ lastOp' = Op("handleVerify", Some(keyName))
    /\ UNCHANGED <<appVars, store, asyncVars, now, svc, localStorage>>

\* handleVerify after the await, for the call at position i
VerifySettle(i, answer) ==
    /\ i \in 1..Len(verifyCalls)
    /\ verifyCalls[i].op = "verify"
    /\ answer \in VerifyAnswers(verifyCalls[i].keyName)
    /\ settings' = VerifyResult(settings, verifyCalls[i].keyName,
                                verifySettle(verifyCalls[i].keyName, answer))
    /\ verifyCalls' = RemoveAt(verifyCalls, i)
    /\ lastOp' = Op("VerifySettle", Some(verifyCalls[i].keyName))
    /\ UNCHANGED <<appVars, store, asyncVars, now, svc, localStorage>>

\* the Save Keys button, disabled while isSaving
handleSave ==
    /\ store.isSettingsModalOpen
    /\ ~settings.isSaving
    /\ LET geminiFormatError == validateKeyFormat("gemini", settings.keys.gemini)
           start == verifyGeminiStart(settings.keys.gemini)
       IN IF geminiFormatError # Null
          THEN /\ settings' = [settings EXCEPT !.saveError = Null,
                                  !.errors = [NoMessages EXCEPT !.gemini = geminiFormatError]]
               /\ UNCHANGED <<store, verifyCalls>>
          ELSE IF settings.keys.gemini = ""
          THEN /\ settings' = [settings EXCEPT !.saveError = Null]
               /\ store' = closeAllModals(setApiKeys(store, settings.keys))
               /\ UNCHANGED verifyCalls
          ELSE IF start # Null
          THEN /\ settings' = [settings EXCEPT !.saveError = start[1].message]
               /\ UNCHANGED <<store, verifyCalls>>
          ELSE /\ settings' = [settings EXCEPT !.saveError = Null, !.isSaving = TRUE]
               /\ verifyCalls' = Append(verifyCalls,
                     [op |-> "save", keyName |-> "gemini", apiKey |-> settings.keys.gemini,
                      keys |-> settings.keys])
               /\ UNCHANGED store
    /\ lastOp' = Op("handleSave", Null)
    /\ UNCHANGED <<appVars, asyncVars, now, svc, localStorage>>

\* handleSave after the await, lines 150-159, with the keys of its closure
SaveSettle(i, answer) ==
    /\ i \in 1..Len(verifyCalls)
    /\ verifyCalls[i].op = "save"
    /\ answer \in GeminiVerifyAnswers
    /\ LET verificationResult == verifyGeminiSettle(answer)
       IN IF ~verificationResult.success
          THEN /\ settings' =
                     [settings EXCEPT !.isSaving = FALSE,
                         !.saveError =
                             IF verificationResult.message # Null
                                /\ verificationResult.message # Some(<< >>)
                             THEN verificationResult.message ELSE Some(MSG_SAVE_UNKNOWN)]
               /\ UNCHANGED store
          ELSE /\ settings' = [settings EXCEPT !.isSaving = FALSE]
               /\ store' = closeAllModals(setApiKeys(store, verifyCalls[i].keys))
    /\ verifyCalls' = RemoveAt(verifyCalls, i)
    /\ lastOp' = Op("SaveSettle", Some(answer))
    /\ UNCHANGED <<appVars, asyncVars, now, svc, localStorage>>

----------------------------------------------------------------------------
(* store.ts line 97: the module runs runMigration when it is loaded.  The  *)
(* argument of lastOp counts the loads.                                    *)

MigrationRuns == IF lastOp.name = "runMigration" THEN lastOp.arg[1] ELSE 0

runMigration ==
    /\ localStorage' = Migrated(localStorage)
    /\ lastOp' = Op("runMigration", Some(MigrationRuns + 1))
    /\ UNCHANGED <<appVars, store, asyncVars, now, svc, settingsVars>>

----------------------------------------------------------------------------
(* generateListing called directly, outside the shell *)

ServiceCall(platform, text, apiKey, image) ==
    /\ svc.phase # "called"
    /\ LET start == generateListingStart(apiKey)
       IN svc' = [phase |-> IF start.issued THEN "called" ELSE "done",
                  platform |-> platform, text |-> text, image |-> image,
                  apiKey |-> apiKey, issued |-> start.issued,
                  contents |-> IF start.issued
                               THEN Some([parts |-> buildPrompt(platform, text, image)])
                               ELSE Null,
                  answer |-> Null, outcome |-> start.outcome]
    /\ lastOp' = Op("ServiceCall", Null)
    /\ UNCHANGED <<appVars, store, asyncVars, now, settingsVars, localStorage>>

ServiceSettle(answer) ==
    /\ svc.phase = "called"
    /\ svc' = [svc EXCEPT !.phase = "done", !.answer = Some(answer),
                          !.outcome = Some(generateListingSettle(answer))]
    /\ lastOp' = Op("ServiceSettle", Null)
    /\ UNCHANGED <<appVars, store, asyncVars, now, settingsVars, localStorage>>

----------------------------------------------------------------------------
(* Specifications *)

\* the provider's answers in the shell specification
GoodAnswer(itemName) ==
    [kind |-> "response",
     text |-> Some([parses |-> TRUE,
                    json |-> Some([itemName |-> itemName, suggestedPrice |-> "$10 - $20",
                                   listing |-> Some([title |-> Some("T"),
                                                     description |-> "D",
                                                     tags |-> Some(<<"tag">>)])])])]

ShellAnswers == {GoodAnswer("cam"), [kind |-> "throw", thrown |-> Error(<<"Quota">>)]}

Succeeds(answer) == ~generateListingSettle(answer).threw

\* The shell: view reconciliation, no pricing key
Init == InitWith(GeminiKeys, {""})

Next ==
    \/ handleGenerate
    \/ \E i \in 1..Len(genCalls), answer \in ShellAnswers :
          /\ Succeeds(answer) => now < MaxNow
          /\ GenerateSettle(i, answer)
    \/ handleStartNewListing
    \/ \E platform \in ShellPlatforms : onPlatformChange(platform)
    \/ \E text \in ShellTexts : onTextChange(text)
    \/ \E image \in ShellImages : onImageChange(image)
    \/ \E i \in 1..Len(history) : handleHistorySelect(i)
    \/ \E i \in 1..Len(savedListings) : handleSelectSavedListing(i)
    \/ handleOpenSaveModal
    \/ \E title \in SaveTitleInputs : now < MaxNow /\ handleSaveListing(title)
    \/ handleCloseModal
    \/ \E i \in 1..Len(savedListings) : handleOpenEditModal(i)
    \/ \E formData \in FormInputs : Len(timers) < MaxTimers /\ handleUpdateListing(formData)
    \/ \E i \in 1..Len(timers) : TimerFire(i)
    \/ \E i \in 1..Len(savedListings) : handleDeleteSavedListing(savedListings[i].id)
    \/ \E i \in 1..Len(history) : handleDeleteHistory(history[i].id)

Spec == Init /\ [][Next]_vars

\* The history cap: generations one after the other, deletions of the
\* oldest entries and selections of the oldest entry
InitHist == InitWith({"gk"}, {""})

NextHist ==
    \/ onTextChange("t1")
    \/ handleGenerate
    \/ \E i \in 1..Len(genCalls) : now < MaxHistNow /\ GenerateSettle(i, GoodAnswer("cam"))
    \/ \E id \in 1..MaxHistDeleteId : handleDeleteHistory(id)
    \/ Len(history) >= 1 /\ handleHistorySelect(Len(history))

SpecHist == InitHist /\ [][NextHist]_vars

\* Generation and its failures: every provider answer, and generateListing
\* called directly with every key
InitGen == InitWith(GeminiKeys, {""})

\* a run exercises either the shell or the direct call
ShellUntouched == lastOp.name \in {"init", "ServiceCall", "ServiceSettle"}

NextGen ==
    \/ /\ svc.phase = "idle"
       /\ \/ \E text \in TextInputs : onTextChange(text)
          \/ \E image \in ImageInputs : onImageChange(image)
          \/ handleGenerate
          \/ \E i \in 1..Len(genCalls), answer \in ProviderAnswers :
                /\ Succeeds(answer) => now < MaxNow
                /\ GenerateSettle(i, answer)
    \/ /\ ShellUntouched
       /\ \/ \E platform \in PromptPlatforms, text \in TextInputs, apiKey \in GeminiKeys,
                image \in ImageInputs : ServiceCall(platform, text, apiKey, image)
          \/ \E answer \in ProviderAnswers : ServiceSettle(answer)

SpecGen == InitGen /\ [][NextGen]_vars

\* The settings dialog: the keys are edited, verified and saved
MaxVerifyCalls == 2

\* the values typed into each field
FieldInputs(keyName) ==
    CASE keyName = "gemini" -> {"", "short", "gk"}
      [] keyName = "openai" -> {"", "short", "sk-key"}
      [] OTHER -> {"", "ek"}

\* a run works on the generation key and one other field at a time
OthersUntouched(keyName) ==
    \A k \in KeyNames \ {"gemini", keyName} :
        /\ settings.keys[k] = ""
        /\ settings.verificationStatus[k] = "idle"
        /\ \A i \in 1..Len(verifyCalls) : verifyCalls[i].keyName # k

\* the provider's answers in the settings specification
SettingsAnswers(keyName) ==
    CASE keyName = "gemini" ->
            {[kind |-> "ok"], [kind |-> "throw", thrown |-> Error(<<"API key not valid">>)]}
      [] keyName = "openai" ->
            {[kind |-> "response", ok |-> TRUE],
             [kind |-> "response", ok |-> FALSE, status |-> 401,
              body |-> Some([error |-> Some([message |-> Some(<<"boom">>)])])]}
      [] OTHER -> {[kind |-> "ok"]}

InitSettings == InitWith(GeminiKeys, {""})

NextSettings ==
    \/ handleOpenSettings
    \/ \E keyId \in KeyNames, value \in KeyInputs :
          /\ value \in FieldInputs(keyId)
          /\ OthersUntouched(keyId)
          /\ handleChange(keyId, value)
    \/ \E keyName \in KeyNames :
          Len(verifyCalls) < MaxVerifyCalls /\ handleVerify(keyName)
    \/ \E i \in 1..Len(verifyCalls) :
          \E answer \in SettingsAnswers(verifyCalls[i].keyName) : VerifySettle(i, answer)
    \/ Len(verifyCalls) < MaxVerifyCalls /\ handleSave
    \/ \E i \in 1..Len(verifyCalls) :
          \E answer \in SettingsAnswers("gemini") : SaveSettle(i, answer)
    \/ handleCloseModal

SpecSettings == InitSettings /\ [][NextSettings]_vars

\* Pricing: generations with and without a pricing key, the price fetch in
\* flight while the user navigates
MaxPriceNow == 3
MaxPriceCalls == 2

InitPrice == InitWith({"gk"}, EbayKeys)

NextPrice ==
    \/ onTextChange("t1")
    \/ handleGenerate
    \/ \E i \in 1..Len(genCalls), answer \in {GoodAnswer("cam"), GoodAnswer("")} :
          /\ now < MaxPriceNow
          /\ Len(priceCalls) < MaxPriceCalls
          /\ GenerateSettle(i, answer)
    \/ \E i \in 1..Len(priceCalls), resolves \in BOOLEAN : PriceSettle(i, resolves)
    \/ handleStartNewListing
    \/ \E i \in 1..Len(history) : handleHistorySelect(i)
    \/ handleOpenSaveModal
    \/ handleOpenExportModal
    \/ now < MaxPriceNow /\ handleSaveListing("mine")
    \/ handleCloseModal
    \/ \E i \in 1..Len(savedListings) : handleSelectSavedListing(i)

SpecPrice == InitPrice /\ [][NextPrice]_vars

\* Identifiers: items are created while the system clock may be set back
\* between two readings
MaxIdClock == 2
MaxIdItems == 2

InitIds == InitWith({"gk"}, {""})

NextIds ==
    \/ onTextChange("t1")
    \/ handleGenerate
    \/ \E i \in 1..Len(genCalls), t \in 1..MaxIdClock :
          Len(history) < MaxIdItems /\ GenerateSettleAt(i, GoodAnswer("cam"), t)
    \/ handleOpenSaveModal
    \/ \E t \in 1..MaxIdClock :
          Len(savedListings) < MaxIdItems /\ handleSaveListingAt("mine", t)
    \/ handleCloseModal
    \/ \E i \in 1..Len(history) : handleDeleteHistory(history[i].id)
    \/ \E i \in 1..Len(savedListings) : handleDeleteSavedListing(savedListings[i].id)

SpecIds == InitIds /\ [][NextIds]_vars

\* What an item records: the inputs are edited and entries selected between
\* Generate, its answer and Save; nothing is deleted, so the history keeps
\* one item for every call that succeeded
MaxRecordNow == 2

InitRecord == InitWith({"gk"}, {""})

NextRecord ==
    \/ onPlatformChange("X")
    \/ \E text \in {"t1", " "} : onTextChange(text)
    \/ onImageChange(Some(IMG))
    \/ handleGenerate
    \/ \E i \in 1..Len(genCalls), itemName \in {"cam", ""} :
          now < MaxRecordNow /\ GenerateSettle(i, GoodAnswer(itemName))
    \/ handleStartNewListing
    \/ \E i \in 1..Len(history) : handleHistorySelect(i)
    \/ handleOpenSaveModal
    \/ now < MaxRecordNow /\ handleSaveListing("mine")
    \/ handleCloseModal

SpecRecord == InitRecord /\ [][NextRecord]_vars

\* The storage migration: the page is loaded with any storage, several times
MaxMigrationRuns == 2

InitMig == InitState({""}, {""}, Storages)

NextMig == MigrationRuns < MaxMigrationRuns /\ runMigration

SpecMig == InitMig /\ [][NextMig]_vars

----------------------------------------------------------------------------
(* Properties *)

Count(b) == IF b THEN 1 ELSE 0

\* C1: in every reachable state of the shell at most one of the live
\* generated listing, the selected history item and the selected saved item
\* is set
C1_MutuallyExclusive ==
    Count(generatedListing # Null) + Count(activeHistoryId # Null)
        + Count(activeSavedId # Null) <= 1

SettledOk == lastOp.name = "GenerateSettle" /\ Succeeds(lastOp.arg[1])

\* C2: right after a generation call completed successfully the live listing
\* is its result and no history or saved item is selected
C2_SuccessIsComposing ==
    SettledOk =>
        /\ generatedListing = Some(generateListingSettle(lastOp.arg[1]).value)
        /\ activeHistoryId = Null
        /\ activeSavedId = Null

NewestFirst(list) == \A i \in 1..Len(list) - 1 : list[i].id > list[i + 1].id

\* C3: the history never holds more than 50 entries, newest first, and an
\* insertion into a full history drops exactly the entry inserted earliest
C3_HistoryCap ==
    /\ [](Len(history) <= 50 /\ NewestFirst(history))
    /\ [][lastOp'.name = "GenerateSettle" /\ Len(history) = 50 =>
            /\ Len(history') = 50
            /\ SubSeq(history', 2, 50) = SubSeq(history, 1, 49)
            /\ history'[1].id = now']_vars

C3_Witness ==
    /\ lastOp.name = "GenerateSettle"
    /\ Len(history) = 50
    /\ history[1].id = 52
    /\ history[50].id = 3

\* C4: with an empty generation key handleGenerate sets the MissingCredential
\* message and starts no call, and generateListing throws that message
\* without calling the provider, whatever the text and image
C4_MissingCredential ==
    /\ lastOp.name = "handleGenerate" /\ apiKeys.gemini = "" =>
            error = Some(MSG_MISSING_KEY) /\ genCalls = << >>
    /\ \A i \in 1..Len(genCalls) : genCalls[i].apiKey # ""
    /\ svc.phase # "idle" /\ svc.apiKey = "" =>
            /\ svc.phase = "done"
            /\ ~svc.issued
            /\ svc.outcome = Some(Throws(Error(MSG_MISSING_KEY)))

C4_Witness ==
    /\ svc.phase = "done"
    /\ svc.apiKey = ""
    /\ svc.text = ""
    /\ svc.image = Null
    /\ ~svc.issued

\* a response that is unparseable, or parses but lacks `listing` or a
\* non-empty `listing.title`
Malformed(answer) ==
    /\ answer.kind = "response"
    /\ answer.text # Null
    /\ \/ ~answer.text[1].parses
       \/ /\ answer.text[1].json # Null
          /\ \/ answer.text[1].json[1].listing = Null
             \/ answer.text[1].json[1].listing[1].title \in {Null, Some("")}

\* C5: a malformed response makes the generation fail with a message that is
\* none of the messages of the other failure categories
C5_MalformedIsDistinct ==
    lastOp.name = "GenerateSettle" /\ Malformed(lastOp.arg[1]) =>
        /\ error # Null
        /\ error[1] \notin {MSG_MISSING_KEY, MSG_INVALID_KEY, MSG_QUOTA, MSG_SAFETY,
                            MSG_NETWORK, MSG_GENERIC}

\* the text contains the phrase in some letter case
ContainsAnyCase(msg, phrase) ==
    \E i \in 1..Len(msg) : ChunkIncludes(LowerChunk(msg[i]), phrase)

ThrewError == /\ lastOp.name = "GenerateSettle"
              /\ lastOp.arg[1].kind = "throw"
              /\ lastOp.arg[1].thrown.isError

ThrownText == lastOp.arg[1].thrown.message

MentionsQuota ==
    ContainsAnyCase(ThrownText, "quota") \/ ContainsAnyCase(ThrownText, "rate limit")

\* C6 as stated: an error whose text contains "quota" or "rate limit" in any
\* letter case reaches the caller as the QuotaExceeded message
C6_QuotaAlways ==
    ThrewError /\ MentionsQuota => error = Some(MSG_QUOTA)

\* C6 amended: an Error whose text contains "quota" or "rate limit" in any
\* letter case, and not "api key not valid", reaches the caller as the
\* QuotaExceeded message, which is neither the InvalidCredential nor the
\* generic message; the phrases are tried in the order key validity, quota or
\* rate limit, safety, fetch, and the generic message is the fallback
C6_QuotaInOrder ==
    /\ MSG_QUOTA \notin {MSG_INVALID_KEY, MSG_GENERIC}
    /\ ThrewError =>
        error = Some(IF ContainsAnyCase(ThrownText, "api key not valid") THEN MSG_INVALID_KEY
                     ELSE IF MentionsQuota THEN MSG_QUOTA
                     ELSE IF ContainsAnyCase(ThrownText, "safety") THEN MSG_SAFETY
                     ELSE IF ContainsAnyCase(ThrownText, "fetch") THEN MSG_NETWORK
                     ELSE MSG_GENERIC)

C6_Witness ==
    /\ ThrewError
    /\ ThrownText = <<"boom", "RATE LIMIT">>
    /\ error = Some(MSG_QUOTA)

\* the stored record differs from the one before the edit at most in the
\* listing title, the listing description and customTitle
SameButEdited(before, after) ==
    /\ after.id = before.id
    /\ after.platform = before.platform
    /\ after.input = before.input
    /\ after.timestamp = before.timestamp
    /\ after.listingData.itemName = before.listingData.itemName
    /\ after.listingData.suggestedPrice = before.listingData.suggestedPrice
    /\ after.listingData.listing.tags = before.listingData.listing.tags

Viewing == activeHistoryId # Null \/ activeSavedId # Null

\* C9: an edit of the marketplace, the text or the image while an entry is
\* viewed clears the selection, puts the entered value in the edited input
\* and leaves the other two inputs as they were
C9_EditLeavesViewing ==
    [][Viewing /\ lastOp'.name \in {"onPlatformChange", "onTextChange", "onImageChange"} =>
        /\ activeHistoryId' = Null
        /\ activeSavedId' = Null
        /\ lastOp'.name = "onPlatformChange" =>
              selectedPlatform' = lastOp'.arg[1] /\ UNCHANGED <<textInput, imageFile>>
        /\ lastOp'.name = "onTextChange" =>
              textInput' = lastOp'.arg[1] /\ UNCHANGED <<selectedPlatform, imageFile>>
        /\ lastOp'.name = "onImageChange" =>
              imageFile' = lastOp'.arg[1] /\ UNCHANGED <<selectedPlatform, textInput>>]_vars

\* an image was attached while a history entry was viewed: the image stays,
\* the entry keeps its own input and is no longer selected
C9_Witness ==
    /\ lastOp = Op("onImageChange", Some(Some(IMG)))
    /\ imageFile = Some(IMG)
    /\ ~Viewing
    /\ generatedListing = Null
    /\ Len(history) = 1
    /\ history[1].input.image = Null
    /\ textInput = history[1].input.text
    /\ selectedPlatform = history[1].platform
    /\ isGenerationComplete = FALSE

\* C10: after the viewed history or saved entry is deleted nothing is
\* selected and there is no live listing; deleting another entry leaves the
\* selection as it was
C10_DeleteViewed ==
    [][/\ lastOp'.name = "handleDeleteHistory" =>
            IF activeHistoryId = lastOp'.arg
            THEN activeHistoryId' = Null /\ activeSavedId' = Null
                 /\ generatedListing' = Null
            ELSE UNCHANGED <<activeHistoryId, activeSavedId>>
       /\ lastOp'.name = "handleDeleteSavedListing" =>
            IF activeSavedId = lastOp'.arg
            THEN activeHistoryId' = Null /\ activeSavedId' = Null
                 /\ generatedListing' = Null
            ELSE UNCHANGED <<activeHistoryId, activeSavedId>>]_vars


\* the texts written in the application's code as messages for the user
AppMessages ==
    {MSG_MISSING_KEY, MSG_NO_INPUT, MSG_BAD_FORMAT, MSG_BAD_STRUCTURE, MSG_INVALID_KEY,
     MSG_QUOTA, MSG_SAFETY, MSG_NETWORK, MSG_GENERIC, MSG_UNKNOWN, MSG_KEY_EMPTY,
     MSG_GEMINI_REQUIRED, MSG_GEMINI_SHORT, MSG_OPENAI_PREFIX, MSG_OPENAI_SHORT,
     MSG_KEY_SHORT, MSG_VERIFY_GEMINI_INVALID, MSG_VERIFY_BILLING, MSG_VERIFY_QUOTA,
     MSG_VERIFY_NETWORK, MSG_OPENAI_PREFIX_SERVICE, MSG_OPENAI_NETWORK, MSG_EBAY_SHORT,
     MSG_VERIFY_FAILED, MSG_CLIENT_ERROR, MSG_SAVE_UNKNOWN}

\* C7: every message shown, the error of a generation and the message under
\* a key field of the settings dialog, is one of the application's own
\* messages, and no part of it is text of the provider
C7_OnlyAppMessages ==
    /\ error # Null => error[1] \in AppMessages
    /\ store.isSettingsModalOpen =>
          \A k \in KeyNames :
              combinedError(k) # Null =>
                  /\ combinedError(k)[1] \in AppMessages
                  /\ \A i \in 1..Len(combinedError(k)[1]) :
                        combinedError(k)[1][i] \notin ProviderChunks


\* the record stored under an old key is found in the merged record: the
\* list as the history or saved list, the keys field by field
CarriedOver(ls, k, record) ==
    /\ ls[ZUSTAND_STORAGE_KEY] # Null
    /\ ls[ZUSTAND_STORAGE_KEY][1].parses
    /\ record.parses
    /\ LET state == ls[ZUSTAND_STORAGE_KEY][1].json.state
       IN CASE k = OLD_HISTORY_KEY -> state.history = record.json
            [] k = OLD_SAVED_KEY -> state.savedListings = record.json
            [] k = OLD_KEYS_KEY ->
                  /\ record.json.type = "object"
                  /\ \A f \in KeyNames :
                        record.json.fields[f] # Null =>
                            state.apiKeys[f] = record.json.fields[f][1]

\* C11: after runMigration every old record that was stored before the run
\* is still stored under its old key, or its contents are in the merged
\* record
C11_NoDataLoss ==
    [][lastOp'.name = "runMigration" =>
        \A k \in OldStorageKeys :
            localStorage[k] # Null =>
                \/ localStorage'[k] = localStorage[k]
                \/ CarriedOver(localStorage', k, localStorage[k][1])]_vars

\* C12: a second run of runMigration right after the first leaves storage as
\* the first left it, and a run that finds the merged record changes nothing
C12_Idempotent ==
    [][lastOp'.name = "runMigration" =>
        /\ lastOp.name = "runMigration" => localStorage' = localStorage
        /\ localStorage[ZUSTAND_STORAGE_KEY] # Null => localStorage' = localStorage]_vars

\* the second run found the record the first one had merged from old data
C12_Witness ==
    /\ lastOp = Op("runMigration", Some(2))
    /\ localStorage[ZUSTAND_STORAGE_KEY] # Null
    /\ localStorage[ZUSTAND_STORAGE_KEY][1].parses
    /\ localStorage[ZUSTAND_STORAGE_KEY][1].json.state.history = JsonArray(<<OldItem(1)>>)
    /\ \A k \in OldStorageKeys : localStorage[k] = Null

\* C13: when the verification started by Save Keys completes, failed or not,
\* the keys entered when Save Keys was pressed are the stored keys
C13_SaveNotBlocked ==
    [][lastOp'.name = "SaveSettle" =>
        \E i \in 1..Len(verifyCalls) :
            /\ verifyCalls[i].op = "save"
            /\ verifyCalls' = RemoveAt(verifyCalls, i)
            /\ store'.apiKeys = verifyCalls[i].keys]_vars

\* a generation that succeeded for a call made with an empty pricing key
SettledWithoutPriceKey ==
    /\ lastOp'.name = "GenerateSettle"
    /\ Succeeds(lastOp'.arg[1])
    /\ \E i \in 1..Len(genCalls) : genCalls' = RemoveAt(genCalls, i) /\ genCalls[i].ebayKey = ""

\* C14: a generation that succeeds with an empty pricing key starts no price
\* fetch, leaves isFetchingHistory false and the error unset, and the
\* preview shows the hint to add a pricing key, not the spinner or a chart
C14_NoPriceKeyNoFetch ==
    [][SettledWithoutPriceKey =>
        /\ priceCalls' = << >>
        /\ ~isFetchingHistory /\ ~isFetchingHistory'
        /\ error' = Null
        /\ PriceHintShown' /\ ~PriceSpinnerShown' /\ ~PriceChartShown']_vars

C14_Witness ==
    /\ lastOp.name = "GenerateSettle"
    /\ Succeeds(lastOp.arg[1])
    /\ apiKeys.ebay = ""
    /\ generatedListing # Null
    /\ generatedListing[1].itemName = "cam"
    /\ PriceHintShown

\* C15: a successful generation sets the live listing and clears the loading
\* state in the step that starts the price fetch, without waiting for it,
\* and a price fetch that fails changes neither the error, nor the live
\* listing, nor the history
C15_FireAndForget ==
    [][/\ lastOp'.name = "GenerateSettle" /\ Succeeds(lastOp'.arg[1]) =>
            /\ generatedListing' = Some(generateListingSettle(lastOp'.arg[1]).value)
            /\ ~isLoading'
            /\ Len(priceCalls') > Len(priceCalls) => isFetchingHistory'
       /\ lastOp'.name = "PriceSettle" /\ lastOp'.arg = Some(FALSE) =>
            UNCHANGED <<error, generatedListing, history>>]_vars

\* the fetch failed after the listing was shown: nothing but the spinner
\* changed
C15_Witness ==
    /\ lastOp = Op("PriceSettle", Some(FALSE))
    /\ generatedListing # Null
    /\ ~isLoading
    /\ error = Null
    /\ priceHistory = Null
    /\ ~isFetchingHistory
    /\ Len(history) = 1

\* C16: the result of a call that completes after the user went elsewhere is
\* dropped.  A generation completing while an entry is selected (the
\* selection was made after it started) does not set the live listing, and
\* a price fetch completing when the live listing it was started for is gone
\* (an entry was selected, or a new listing started) does not set the price
\* history
C16_StaleDiscarded ==
    [][/\ lastOp'.name = "GenerateSettle" /\ Viewing =>
            generatedListing' = generatedListing
       /\ lastOp'.name = "PriceSettle" /\ generatedListing = Null =>
            priceHistory' = priceHistory]_vars

UniqueIds(list) == \A i, j \in 1..Len(list) : list[i].id = list[j].id => i = j

\* C17: no two history items and no two saved items have the same id, and
\* an item keeps the id it was created with
C17_UniqueIds ==
    /\ [](UniqueIds(history) /\ UniqueIds(savedListings))
    /\ [][/\ \A i \in 1..Len(history') :
               \/ \E j \in 1..Len(history) : history'[i] = history[j]
               \/ history'[i].id = now'
          /\ \A i \in 1..Len(savedListings') :
               \/ \E j \in 1..Len(savedListings) : savedListings'[i] = savedListings[j]
               \/ savedListings'[i].id = now']_vars

\* the entries an identifier of the store selects
SelectedEntries ==
    {history[i] : i \in {j \in 1..Len(history) : Some(history[j].id) = activeHistoryId}}
    \cup {savedListings[i] :
             i \in {j \in 1..Len(savedListings) : Some(savedListings[j].id) = activeSavedId}}

\* C18: a selected history or saved entry is what the preview is given, with
\* its own platform, whether or not a live listing is present; without one it
\* is the live listing with the selected platform; without that, nothing
C18_PreviewPrecedence ==
    /\ \A item \in SelectedEntries :
          listingToShow = Some(item.listingData) /\ platformToShow = item.platform
    /\ SelectedEntries = {} /\ generatedListing # Null =>
          listingToShow = generatedListing /\ platformToShow = selectedPlatform
    /\ SelectedEntries = {} /\ generatedListing = Null => listingToShow = Null

\* an entry is selected while a different live listing is present
C18_Witness ==
    \E item \in SelectedEntries :
        /\ generatedListing # Null
        /\ generatedListing # Some(item.listingData)
        /\ listingToShow = Some(item.listingData)

\* the instruction text a prompt carries: the chunk after the announcement
InstructionOf(part) ==
    LET t == part.text
        i == CHOOSE k \in 1..Len(t) : t[k] = "Follow these platform-specific instructions:"
    IN t[i + 1]

\* C19: the four marketplaces get four different instruction texts and any
\* other value the generic one; the parts of a request are the image part
\* followed by the text part when an image is given and the text part alone
\* otherwise; equal (marketplace, text, image) give equal parts
C19_PromptShape ==
    /\ Cardinality({getPlatformInstructions(p) : p \in Platforms}) = 4
    /\ INSTR_DEFAULT \notin {getPlatformInstructions(p) : p \in Platforms}
    /\ (svc.phase # "idle" /\ svc.contents # Null) =>
          LET parts == svc.contents[1].parts
              last == parts[Len(parts)]
          IN /\ Len(parts) = (IF svc.image # Null THEN 2 ELSE 1)
             /\ last.kind = "text"
             /\ svc.image # Null =>
                   /\ parts[1].kind = "inlineData"
                   /\ parts[1].data = svc.image[1].base64
                   /\ parts[1].mimeType = svc.image[1].mimeType
             /\ svc.platform \in Platforms =>
                   InstructionOf(last) = getPlatformInstructions(svc.platform)
             /\ svc.platform \notin Platforms => InstructionOf(last) = INSTR_DEFAULT
             /\ parts = buildPrompt(svc.platform, svc.text, svc.image)

\* a request with an image for a value outside the enumeration
C19_Witness ==
    /\ svc.phase # "idle"
    /\ svc.contents # Null
    /\ svc.image # Null
    /\ svc.platform = OtherPlatform
    /\ Len(svc.contents[1].parts) = 2

\* C20: whenever the preview shows a listing, newly generated or selected,
\* the Actions menu with Export As is there, and Export As opens the export
\* dialog on the listing that is shown
C20_ExportAvailable ==
    /\ [](PreviewShowsListing => ActionsShown)
    /\ [][lastOp'.name = "handleOpenExportModal" =>
            /\ store'.isExportModalOpen
            /\ store'.itemToExport # Null
            /\ Some(store'.itemToExport[1].listingData) = listingToShow]_vars

\* Export As on a selected entry
C20_ExportsShown ==
    [][lastOp'.name = "handleOpenExportModal" =>
         /\ store'.isExportModalOpen
         /\ store'.itemToExport # Null
         /\ Some(store'.itemToExport[1].listingData) = listingToShow]_vars

\* C21: at most one generation call is in flight, and while one is the
\* Generate button cannot start another, whatever the user did meanwhile
C21_OneGeneration ==
    /\ Len(genCalls) <= 1
    /\ Len(genCalls) = 1 => isLoading /\ ~canGenerate

\* Start New Listing pressed (after a selection) while the call is in flight
C21_Witness ==
    /\ Len(genCalls) = 1
    /\ lastOp.name = "handleStartNewListing"

\* C22: at most one price fetch is in flight, and isFetchingHistory is true
\* exactly while one is
C22_OneFetch ==
    /\ Len(priceCalls) <= 1
    /\ isFetchingHistory <=> Len(priceCalls) >= 1

\* C23: a successful generation puts exactly one item, holding the result,
\* at the head of the history and touches nothing else of the stored data; a
\* failed generation, a rejected Generate and the service itself leave
\* history, saved listings and keys as they were; a failed call is not
\* issued again
C23_WritesOnlyOnSuccess ==
    [][/\ (lastOp'.name = "GenerateSettle" /\ Succeeds(lastOp'.arg[1])) =>
            /\ Len(history') = Len(history) + 1
            /\ Some(history'[1].listingData) = generatedListing'
            /\ history'[1].listingData = generateListingSettle(lastOp'.arg[1]).value
            /\ \A k \in 1..Len(history) : history'[k + 1] = history[k]
            /\ savedListings' = savedListings
            /\ apiKeys' = apiKeys
       /\ (lastOp'.name = "GenerateSettle" /\ ~Succeeds(lastOp'.arg[1])) =>
            /\ history' = history
            /\ savedListings' = savedListings
            /\ apiKeys' = apiKeys
            /\ Len(genCalls') = Len(genCalls) - 1
            /\ error' # Null
       /\ lastOp'.name \in {"handleGenerate", "ServiceCall", "ServiceSettle"} =>
            /\ history' = history
            /\ savedListings' = savedListings
            /\ apiKeys' = apiKeys
       /\ (lastOp'.name = "handleGenerate" /\ error' # Null) => genCalls' = genCalls
      ]_vars

\* a generation has failed after an earlier one succeeded
C23_Witness ==
    /\ lastOp.name = "GenerateSettle"
    /\ ~Succeeds(lastOp.arg[1])
    /\ Len(history) = 1
    /\ genCalls = << >>

\* C24: while the Save Listing button is there the preview shows the live
\* generated listing, and saving stores the listing that was shown
C24_SaveStoresShown ==
    /\ [](SaveButtonShown => listingToShow = generatedListing)
    /\ [][(lastOp'.name = "handleSaveListing"
            /\ Len(savedListings') = Len(savedListings) + 1) =>
               Some(savedListings'[1].listingData) = listingToShow]_vars

\* the history items of the calls that returned this listing
ProducedBy(listingData) ==
    {history[k] : k \in {j \in 1..Len(history) : history[j].listingData = listingData}}

\* C25: a saved item holds the platform and the input of the generation call
\* that returned its listing, whatever was edited or selected before Save
C25_SavedRecordsInputs ==
    [][(lastOp'.name = "handleSaveListing"
        /\ Len(savedListings') = Len(savedListings) + 1) =>
           \E h \in ProducedBy(savedListings'[1].listingData) :
               /\ savedListings'[1].platform = h.platform
               /\ savedListings'[1].input = h.input]_vars

\* C30: a call is issued with the inputs as they are when Generate is
\* pressed, and the history item of its result holds the platform, the text
\* and the image of the call, whatever was done while it was in flight
C30_HistoryRecordsInputs ==
    [][/\ (lastOp'.name = "handleGenerate" /\ Len(genCalls') = Len(genCalls) + 1) =>
            LET call == genCalls'[Len(genCalls')]
            IN /\ call.platform = selectedPlatform
               /\ call.text = textInput
               /\ call.image = imageFile
       /\ (lastOp'.name = "GenerateSettle" /\ Len(history') = Len(history) + 1) =>
            \E i \in 1..Len(genCalls) :
                /\ genCalls' = RemoveAt(genCalls, i)
                /\ history'[1].platform = genCalls[i].platform
                /\ history'[1].input = [text |-> genCalls[i].text,
                                        image |-> genCalls[i].image]
      ]_vars

\* the answer arrived after the platform and the text were changed and an
\* image was added
C30_Witness ==
    /\ lastOp.name = "GenerateSettle"
    /\ Len(history) >= 1
    /\ history[1].platform # selectedPlatform
    /\ history[1].input.text # textInput
    /\ history[1].input.image # imageFile

\* C26: an identifier held as the selection is the id of an item of its
\* collection
C26_NoDangling ==
    /\ activeHistoryId # Null =>
          \E i \in 1..Len(history) : Some(history[i].id) = activeHistoryId
    /\ activeSavedId # Null =>
          \E i \in 1..Len(savedListings) : Some(savedListings[i].id) = activeSavedId

\* C27: a price history that is held was fetched for the item name of the
\* listing the preview is given, and a fetch that resolves after the inputs
\* were edited, an entry selected or a generation started sets none
C27_PriceMatchesShown ==
    /\ [](priceHistory # Null =>
             /\ listingToShow # Null
             /\ listingToShow[1].itemName = priceHistory[1].forItem)
    /\ [][(lastOp'.name = "PriceSettle"
            /\ (generatedListing = Null \/ activeItem # Null \/ isLoading)) =>
               priceHistory' = Null]_vars

\* C28: closing the settings dialog leaves the stored keys as they are, and
\* so does a verification started by Save Keys that completes after the
\* dialog was closed
C28_CancelKeepsKeys ==
    [][/\ lastOp'.name = "closeAllModals" => apiKeys' = apiKeys
       /\ (lastOp'.name = "SaveSettle" /\ ~store.isSettingsModalOpen) =>
             apiKeys' = apiKeys]_vars

\* the verifications of the key of one provider that are in flight
VerificationsInFlight(keyName) ==
    {i \in 1..Len(verifyCalls) :
        verifyCalls[i].op = "verify" /\ verifyCalls[i].keyName = keyName}

\* C29: at most one verification per provider is in flight, and the answer
\* to the verification of a key that has been edited since marks the field
\* neither verified nor failed
C29_StatusIsOfCurrentKey ==
    /\ [](\A keyName \in KeyNames : Cardinality(VerificationsInFlight(keyName)) <= 1)
    /\ [][lastOp'.name = "VerifySettle" =>
            \A i \in 1..Len(verifyCalls) :
                (/\ verifyCalls' = RemoveAt(verifyCalls, i)
                 /\ verifyCalls[i].op = "verify"
                 /\ verifyCalls[i].apiKey # Trim(settings.keys[verifyCalls[i].keyName])) =>
                    settings'.verificationStatus[verifyCalls[i].keyName]
                        \notin {"success", "error"}]_vars

====
